---- MODULE Spec2Model ----
(***************************************************************************)
(* light-validation: the primitive validators (String, Integer, Boolean,   *)
(* Email, Password, File) and ObjectSchema, as state machines.  A          *)
(* validator is built by chained rule-adding calls and then used by        *)
(* validate; an ObjectSchema holds a key -> validator mapping and is used  *)
(* by parseData.                                                           *)
(*                                                                         *)
(* JavaScript values are records tagged by "t".  A string is the sequence  *)
(* of its characters, so that length, trim, parseInt and the regular       *)
(* expressions are computed and not assumed.  A call that throws is the    *)
(* record [raised |-> "TypeError"]; a call that returns is the record of   *)
(* the fields the returned object literal has.                             *)
(***************************************************************************)
EXTENDS Integers, Sequences, FiniteSets, TLC

VARIABLES validator, call, result, ran, schema, input, parsed, visited

vars == <<validator, call, result, ran, schema, input, parsed, visited>>

(***************************************************************************)
(* Bounds of the model.                                                    *)
(***************************************************************************)
\* the longest rule chain built on one validator
MaxRules == 2
\* the largest number of keys of a schema
MaxFields == 2

(***************************************************************************)
(* JavaScript values.                                                      *)
(***************************************************************************)
Undefined == [t |-> "undefined"]
Null == [t |-> "null"]
Str(s) == [t |-> "string", s |-> s]
\* a string the model never looks into (a MIME type), known by its text
Text(text) == [t |-> "string", text |-> text]
\* a number is a whole number n, a number with a fractional part (n its
\* integer part) or NaN
Num(n) == [t |-> "number", k |-> "int", n |-> n]
Frac(n) == [t |-> "number", k |-> "frac", n |-> n]
NaN == [t |-> "number", k |-> "nan", n |-> 0]
Bool(b) == [t |-> "boolean", b |-> b]
Arr(items) == [t |-> "array", items |-> items]
\* an object with the two properties the file validator reads; a property
\* the object lacks reads as Undefined
Obj(type, size) == [t |-> "object", type |-> type, size |-> size]

TypeOf(x) == IF x.t \in {"null", "array"} THEN "object" ELSE x.t
\* x == null
IsNullish(x) == x.t \in {"null", "undefined"}
IsArray(x) == x.t = "array"
\* x.length of a value that is neither null nor undefined: a number for a
\* string and an array, undefined otherwise
HasLength(x) == x.t \in {"string", "array"}
Length(x) == IF x.t = "string" THEN Len(x.s) ELSE Len(x.items)
\* x.length === 0
LengthIsZero(x) == HasLength(x) /\ Length(x) = 0
\* !x for the values a descriptor's property can hold
Falsy(x) ==
  \/ IsNullish(x)
  \/ x.t = "string" /\ "s" \in DOMAIN x /\ Len(x.s) = 0
  \/ x.t = "string" /\ "text" \in DOMAIN x /\ x.text = ""
  \/ x.t = "number" /\ (x.k = "nan" \/ (x.k = "int" /\ x.n = 0))
  \/ x.t = "boolean" /\ ~x.b

(***************************************************************************)
(* Characters.                                                             *)
(***************************************************************************)
Digits == {"0", "1", "2", "3", "4", "5", "6", "7", "8", "9"}
UpperCase == {"A", "B", "C", "D", "E", "F", "G", "H", "I", "J", "K", "L", "M",
              "N", "O", "P", "Q", "R", "S", "T", "U", "V", "W", "X", "Y", "Z"}
LowerCase == {"a", "b", "c", "d", "e", "f", "g", "h", "i", "j", "k", "l", "m",
              "n", "o", "p", "q", "r", "s", "t", "u", "v", "w", "x", "y", "z"}
WhiteSpace == {" ", "\t", "\n"}
SpecialChars == {"!", "@", "#", "$", "%", "^", "&", "*", "(", ")", ",", ".",
                 "?", "\"", ":", "{", "}", "|", "<", ">"}

DigitValue(c) ==
  CASE c = "0" -> 0 [] c = "1" -> 1 [] c = "2" -> 2 [] c = "3" -> 3
    [] c = "4" -> 4 [] c = "5" -> 5 [] c = "6" -> 6 [] c = "7" -> 7
    [] c = "8" -> 8 [] c = "9" -> 9

\* pattern.test(s) for a pattern that is one character class
ContainsOneOf(s, class) == \E i \in 1..Len(s) : s[i] \in class

\* String.prototype.trim
RECURSIVE TrimStart(_)
TrimStart(s) ==
  IF s # <<>> /\ Head(s) \in WhiteSpace THEN TrimStart(Tail(s)) ELSE s

RECURSIVE TrimEnd(_)
TrimEnd(s) ==
  IF s # <<>> /\ s[Len(s)] \in WhiteSpace
  THEN TrimEnd(SubSeq(s, 1, Len(s) - 1)) ELSE s

Trim(s) == TrimEnd(TrimStart(s))

\* the length of the longest prefix of s made of digits
RECURSIVE DigitPrefix(_)
DigitPrefix(s) ==
  IF s # <<>> /\ Head(s) \in Digits THEN 1 + DigitPrefix(Tail(s)) ELSE 0

RECURSIVE DigitsValue(_, _)
DigitsValue(s, acc) ==
  IF s = <<>> THEN acc ELSE DigitsValue(Tail(s), 10 * acc + DigitValue(Head(s)))

\* parseInt(s, 10): leading white space is skipped, then an optional sign,
\* then the longest run of digits; what follows is ignored; no digit: NaN
ParseInt(s) ==
  LET body == TrimStart(s)
      signed == body # <<>> /\ Head(body) \in {"+", "-"}
      rest == IF signed THEN Tail(body) ELSE body
      k == DigitPrefix(rest)
      magnitude == DigitsValue(SubSeq(rest, 1, k), 0)
  IN IF k = 0 THEN NaN
     ELSE IF signed /\ Head(body) = "-" THEN Num(0 - magnitude)
     ELSE Num(magnitude)

\* Number.isInteger(x)
IsInteger(x) == x.t = "number" /\ x.k = "int"

(***************************************************************************)
(* Options, messages, rule outcomes and results.                           *)
(***************************************************************************)
\* the options object of validate: {} or {fieldName: name}
NoOptions == [empty |-> TRUE]
Options(name) == [fieldName |-> name]
\* const { fieldName = dflt } = options
FieldNameOf(options, dflt) ==
  IF "fieldName" \in DOMAIN options THEN options.fieldName ELSE dflt

\* `${name} ${text}`, the text holding the number n or the list where the
\* template has ${...}; a rule called without its fieldName argument
\* interpolates "undefined"
Msg(name, text) == [name |-> name, text |-> text]
MsgN(name, text, n) == [name |-> name, text |-> text, n |-> n]
MsgList(name, text, list) == [name |-> name, text |-> text, list |-> list]
\* `${name} ${i} ${text}`, `${name}[${i}] ${text}`
MsgAt(name, i, text) == [name |-> name, idx |-> i, text |-> text]
MsgAtN(name, i, text, n) == [name |-> name, idx |-> i, text |-> text, n |-> n]
MsgAtList(name, i, text, list) ==
  [name |-> name, idx |-> i, text |-> text, list |-> list]
\* a message used verbatim
Verbatim(text) == [verbatim |-> text]

\* what a rule returns, or that it threw
Pass(value) == [valid |-> TRUE, value |-> value]
PassData(value) == [valid |-> TRUE, data |-> value]
Reject(error) == [valid |-> FALSE, error |-> error]
Threw == [raised |-> "TypeError"]
HasRaised(r) == "raised" \in DOMAIN r

\* what validate returns
Valid(d) == [valid |-> TRUE, data |-> d]
Invalid(errors) == [valid |-> FALSE, errors |-> errors]
\* a failure result that would carry no data field
InvalidWithoutData(errors, d) == [valid |-> FALSE, errors |-> errors]
InvalidWithData(errors, d) == [valid |-> FALSE, errors |-> errors, data |-> d]

\* options.message || dflt
MessageOr(message, dflt) == IF message # "" THEN Verbatim(message) ELSE dflt

(***************************************************************************)
(* String validator.                                                       *)
(***************************************************************************)
\* new StringValidator()
NewString ==
  [cls |-> "String", rules |-> <<>>, allowNull |-> FALSE, isArray |-> FALSE]

StringNullable(self) == [self EXCEPT !.allowNull = TRUE]

StringArray(self) == [self EXCEPT !.isArray = TRUE]

\* min(length, options) and max(length, options) push one closure, which
\* keeps length and options.message
StringMin(self, length, message) ==
  [self EXCEPT !.rules =
     Append(@, [op |-> "min", n |-> length, message |-> message])]

StringMax(self, length, message) ==
  [self EXCEPT !.rules =
     Append(@, [op |-> "max", n |-> length, message |-> message])]

\* the closure pushed by min or max, called as rule(value, fieldName);
\* value.length throws for null and undefined
StringRule(rule, value, fieldName) ==
  IF IsNullish(value) THEN Threw
  ELSE IF rule.op = "min"
  THEN IF HasLength(value) /\ Length(value) < rule.n
       THEN Reject(MessageOr(rule.message,
              MsgN(fieldName, "must be at least ${length} characters long.",
                   rule.n)))
       ELSE Pass(value)
  ELSE IF HasLength(value) /\ Length(value) > rule.n
       THEN Reject(MessageOr(rule.message,
              MsgN(fieldName, "must be no more than ${length} characters long.",
                   rule.n)))
       ELSE Pass(value)

\* a search that would report the element it starts at whenever some
\* element from there on is not a string
NonStringAtStart(items, i) ==
  IF \E k \in i..Len(items) : TypeOf(items[k]) # "string" THEN i ELSE 0

\* the index of the first element of items that is not a string, 0 if none
RECURSIVE FirstNonString(_, _)
FirstNonString(items, i) ==
  IF i > Len(items) THEN 0
  ELSE IF TypeOf(items[i]) # "string" THEN i
  ELSE FirstNonString(items, i + 1)

\* validateType(value, fieldName, isArray); the index in the message counts
\* from 0
validateType(value, fieldName, isArray) ==
  IF isArray
  THEN IF ~IsArray(value)
       THEN [isValid |-> FALSE, error |-> Msg(fieldName, "must be an array")]
       ELSE LET bad == FirstNonString(value.items, 1)
            IN IF bad # 0
               THEN [isValid |-> FALSE,
                     error |-> MsgAt(fieldName, bad - 1, "must be a string")]
               ELSE [isValid |-> TRUE]
  ELSE IF ~IsNullish(value) /\ TypeOf(value) # "string"
       THEN [isValid |-> FALSE, error |-> Msg(fieldName, "must be a string")]
       ELSE [isValid |-> TRUE]

\* the loop of validateRules from rule i on; every rule gets the value
\* validate was given; ran lists the rules that were called
RECURSIVE validateRulesFrom(_, _, _, _, _)
validateRulesFrom(value, fieldName, rules, i, acc) ==
  IF i > Len(rules) THEN acc
  ELSE LET outcome == StringRule(rules[i], value, fieldName)
           called == Append(acc.ran, i)
       IN IF HasRaised(outcome)
          THEN [acc EXCEPT !.raised = TRUE, !.ran = called]
          ELSE IF ~outcome.valid
          THEN validateRulesFrom(value, fieldName, rules, i + 1,
                 [acc EXCEPT !.errors = Append(@, outcome.error),
                             !.isValid = FALSE, !.value = Null,
                             !.ran = called])
          ELSE validateRulesFrom(value, fieldName, rules, i + 1,
                 [acc EXCEPT !.value = outcome.value, !.ran = called])

validateRules(value, fieldName, rules) ==
  validateRulesFrom(value, fieldName, rules, 1,
    [isValid |-> TRUE, errors |-> <<>>, value |-> value, raised |-> FALSE,
     ran |-> <<>>])

\* StringValidator.validate(value, options): the result and the rules called
StringValidate(self, value, options) ==
  LET fieldName == FieldNameOf(options, "value")
      typeValidationResult == validateType(value, fieldName, self.isArray)
      empty == /\ typeValidationResult.isValid
               /\ ~IsNullish(value) /\ LengthIsZero(value) /\ ~self.allowNull
      ruleValidationResult == validateRules(value, fieldName, self.rules)
  IN IF ~typeValidationResult.isValid
     THEN [res |-> Invalid(<<typeValidationResult.error>>), ran |-> <<>>]
     ELSE IF empty
     THEN [res |-> Invalid(<<Msg(fieldName, "is required")>>), ran |-> <<>>]
     ELSE IF ruleValidationResult.raised
     THEN [res |-> Threw, ran |-> ruleValidationResult.ran]
     \* a failing rule sets validData to null and leaves isValid true
     ELSE IF ~ruleValidationResult.isValid
     THEN [res |-> Valid(Null), ran |-> ruleValidationResult.ran]
     ELSE [res |-> Valid(ruleValidationResult.value),
           ran |-> ruleValidationResult.ran]

(***************************************************************************)
(* Integer validator.                                                      *)
(***************************************************************************)
NewInteger == [cls |-> "Integer", rules |-> <<>>, allowNull |-> FALSE]

IntegerNullable(self) == [self EXCEPT !.allowNull = TRUE]

IntegerMin(self, minValue, message) ==
  [self EXCEPT !.rules =
     Append(@, [op |-> "min", n |-> minValue, message |-> message])]

\* a max that would put its rule in front of the rules added before
IntegerMaxInFront(self, maxValue, message) ==
  [self EXCEPT !.rules =
     <<[op |-> "max", n |-> maxValue, message |-> message]>> \o @]

IntegerMax(self, maxValue, message) ==
  [self EXCEPT !.rules =
     Append(@, [op |-> "max", n |-> maxValue, message |-> message])]

IntegerPositive(self, message) ==
  [self EXCEPT !.rules =
     Append(@, [op |-> "positive", n |-> 0, message |-> message])]

\* the rules with the boundary on the wrong side: min rejects v = minValue,
\* max rejects v = maxValue, positive lets 0 pass
IntegerRuleOffByOne(rule, value, fieldName) ==
  CASE rule.op = "min" ->
         IF value.n <= rule.n
         THEN Reject(MessageOr(rule.message,
                MsgN(fieldName, "must be greater than or equal to ${minValue}",
                     rule.n)))
         ELSE Pass(value)
    [] rule.op = "max" ->
         IF value.n >= rule.n
         THEN Reject(MessageOr(rule.message,
                MsgN(fieldName, "must be less than or equal to ${maxValue}",
                     rule.n)))
         ELSE Pass(value)
    [] rule.op = "positive" ->
         IF value.n < 0
         THEN Reject(MessageOr(rule.message,
                Msg(fieldName, "must be a positive number")))
         ELSE Pass(value)

\* the closure pushed by min, max or positive, called with a whole number
IntegerRule(rule, value, fieldName) ==
  CASE rule.op = "min" ->
         IF value.n < rule.n
         THEN Reject(MessageOr(rule.message,
                MsgN(fieldName, "must be greater than or equal to ${minValue}",
                     rule.n)))
         ELSE Pass(value)
    [] rule.op = "max" ->
         IF value.n > rule.n
         THEN Reject(MessageOr(rule.message,
                MsgN(fieldName, "must be less than or equal to ${maxValue}",
                     rule.n)))
         ELSE Pass(value)
    [] rule.op = "positive" ->
         IF value.n <= 0
         THEN Reject(MessageOr(rule.message,
                Msg(fieldName, "must be a positive number")))
         ELSE Pass(value)

\* the name a rule interpolates when validate calls it as rule(value)
IntegerRuleFieldName(fieldName) == "undefined"

\* the rule loop of IntegerValidator.validate from rule i on
RECURSIVE IntegerRulesFrom(_, _, _, _, _)
IntegerRulesFrom(value, fieldName, rules, i, acc) ==
  IF i > Len(rules) THEN acc
  ELSE LET outcome ==
             IntegerRule(rules[i], value, IntegerRuleFieldName(fieldName))
           called == Append(acc.ran, i)
       IN IF ~outcome.valid
          THEN IntegerRulesFrom(value, fieldName, rules, i + 1,
                 [acc EXCEPT !.errors = Append(@, outcome.error),
                             !.isValid = FALSE, !.validData = Null,
                             !.ran = called])
          ELSE IntegerRulesFrom(value, fieldName, rules, i + 1,
                 [acc EXCEPT !.validData = outcome.value, !.ran = called])

\* IntegerValidator.validate(value, options); validData starts as the value
\* given, before the string is converted
IntegerValidate(self, value, options) ==
  LET fieldName == FieldNameOf(options, "value")
      converted == IF TypeOf(value) = "string" THEN ParseInt(value.s) ELSE value
      looped == IntegerRulesFrom(converted, fieldName, self.rules, 1,
                  [isValid |-> TRUE, errors |-> <<>>, validData |-> value,
                   ran |-> <<>>])
  IN IF IsNullish(value) \/ LengthIsZero(value)
     THEN IF self.allowNull
          THEN [res |-> Valid(Null), ran |-> <<>>]
          ELSE [res |-> Invalid(<<Msg(fieldName, "is required")>>),
                ran |-> <<>>]
     ELSE IF TypeOf(converted) # "number" \/ ~IsInteger(converted)
     THEN [res |-> Invalid(<<Msg(fieldName, "must be an integer")>>),
           ran |-> <<>>]
     ELSE IF looped.isValid
     THEN [res |-> Valid(looped.validData), ran |-> looped.ran]
     ELSE [res |-> Invalid(looped.errors), ran |-> looped.ran]

(***************************************************************************)
(* Boolean validator.                                                      *)
(***************************************************************************)
NewBoolean == [cls |-> "Boolean", rules |-> <<>>, allowNull |-> FALSE]

BooleanNullable(self) == [self EXCEPT !.allowNull = TRUE]

\* String.prototype.toLowerCase, on the capitals of the letters of "true"
\* and "false" (and of "yes"): no other capital can make a word equal to one
\* of the parsed words
LowerOf(c) ==
  CASE c = "T" -> "t" [] c = "R" -> "r" [] c = "U" -> "u" [] c = "E" -> "e"
    [] c = "F" -> "f" [] c = "A" -> "a" [] c = "L" -> "l" [] c = "S" -> "s"
    [] c = "Y" -> "y" [] OTHER -> c

ToLowerCase(s) == [i \in 1..Len(s) |-> LowerOf(s[i])]

\* #parseBoolean without toLowerCase: only the lower-case words are parsed
parseBooleanCaseSensitive(value) ==
  IF TypeOf(value) = "string"
  THEN IF value.s = <<"t", "r", "u", "e">> \/ value.s = <<"1">>
       THEN Bool(TRUE)
       ELSE IF value.s = <<"f", "a", "l", "s", "e">> \/ value.s = <<"0">>
       THEN Bool(FALSE)
       ELSE value
  ELSE value

parseBoolean(value) ==
  IF TypeOf(value) = "string"
  THEN LET lowerValue == ToLowerCase(value.s)
       IN IF lowerValue = <<"t", "r", "u", "e">> \/ lowerValue = <<"1">>
          THEN Bool(TRUE)
          ELSE IF lowerValue = <<"f", "a", "l", "s", "e">>
                  \/ lowerValue = <<"0">>
          THEN Bool(FALSE)
          ELSE value
  ELSE value

\* BooleanValidator.validate(value, options); only null, not undefined, is
\* the missing value
BooleanValidate(self, value, options) ==
  LET fieldName == FieldNameOf(options, "value")
      parsedValue == parseBoolean(value)
  IN IF parsedValue.t = "null"
     THEN IF self.allowNull
          THEN [res |-> Valid(Null), ran |-> <<>>]
          ELSE [res |-> Invalid(<<Msg(fieldName, "is required")>>),
                ran |-> <<>>]
     ELSE IF TypeOf(parsedValue) # "boolean"
     THEN [res |-> Invalid(<<Msg(fieldName, "must be a boolean")>>),
           ran |-> <<>>]
     ELSE [res |-> Valid(parsedValue), ran |-> <<>>]

(***************************************************************************)
(* Email validator.                                                        *)
(***************************************************************************)
\* new EmailValidator(options): options.message || 'Email must be valid'
NewEmail(message) ==
  [cls |-> "Email", rules |-> <<>>, allowNull |-> FALSE,
   message |-> MessageOr(message, Msg("Email", "must be valid"))]

EmailNullable(self) == [self EXCEPT !.allowNull = TRUE]

EmailMax(self, length, message) ==
  [self EXCEPT !.rules =
     Append(@, [op |-> "max", n |-> length, message |-> message])]

LocalChars == LowerCase \cup UpperCase \cup Digits \cup {".", "_", "%", "+", "-"}
DomainChars == LowerCase \cup UpperCase \cup Digits \cup {".", "-"}
Letters == LowerCase \cup UpperCase

AllIn(s, from, to, class) == \A i \in from..to : s[i] \in class

\* the pattern with {1,} in place of {2,}: one letter after the last dot
\* is enough
emailPatternShortTld(s) ==
  \E at \in 2..Len(s) : \E dot \in (at + 2)..(Len(s) - 1) :
    /\ s[at] = "@" /\ s[dot] = "."
    /\ AllIn(s, 1, at - 1, LocalChars)
    /\ AllIn(s, at + 1, dot - 1, DomainChars)
    /\ AllIn(s, dot + 1, Len(s), Letters)

\* /^[a-zA-Z0-9._%+-]+@[a-zA-Z0-9.-]+\.[a-zA-Z]{2,}$/.test(s): at is the
\* place of the "@" and dot the place of the "." before the last letters
emailPattern(s) ==
  \E at \in 2..Len(s) : \E dot \in (at + 2)..(Len(s) - 2) :
    /\ s[at] = "@" /\ s[dot] = "."
    /\ AllIn(s, 1, at - 1, LocalChars)
    /\ AllIn(s, at + 1, dot - 1, DomainChars)
    /\ AllIn(s, dot + 1, Len(s), Letters)

\* #email(value, errorMessage), through #regex
email(value, errorMessage) ==
  IF ~emailPattern(value.s) THEN Reject(errorMessage) ELSE PassData(value)

\* the closure of max with >= in place of >
EmailRuleInclusive(rule, value, fieldName) ==
  IF Length(value) >= rule.n
  THEN Reject(MessageOr(rule.message,
         MsgN(fieldName, "must be no more than ${length} characters long.",
              rule.n)))
  ELSE PassData(value)

\* the closure pushed by max
EmailRule(rule, value, fieldName) ==
  IF Length(value) > rule.n
  THEN Reject(MessageOr(rule.message,
         MsgN(fieldName, "must be no more than ${length} characters long.",
              rule.n)))
  ELSE PassData(value)

RECURSIVE EmailRulesFrom(_, _, _, _, _)
EmailRulesFrom(value, fieldName, rules, i, acc) ==
  IF i > Len(rules) THEN acc
  ELSE LET outcome == EmailRule(rules[i], value, fieldName)
           called == Append(acc.ran, i)
       IN IF ~outcome.valid
          THEN EmailRulesFrom(value, fieldName, rules, i + 1,
                 [acc EXCEPT !.errors = Append(@, outcome.error),
                             !.isValid = FALSE, !.validData = Null,
                             !.ran = called])
          ELSE EmailRulesFrom(value, fieldName, rules, i + 1,
                 [acc EXCEPT !.validData = outcome.data, !.ran = called])

\* EmailValidator.validate(value, options): the rules run after the format
\* check whatever it found
EmailValidate(self, value, options) ==
  LET fieldName == FieldNameOf(options, "Email")
      emailValidation == email(value, self.message)
      checked ==
        IF ~emailValidation.valid
        THEN [isValid |-> FALSE, errors |-> <<emailValidation.error>>,
              validData |-> Null, ran |-> <<>>]
        ELSE [isValid |-> TRUE, errors |-> <<>>,
              validData |-> emailValidation.data, ran |-> <<>>]
      looped == EmailRulesFrom(value, fieldName, self.rules, 1, checked)
  IN IF IsNullish(value) \/ LengthIsZero(value)
     THEN IF self.allowNull
          THEN [res |-> Valid(Null), ran |-> <<>>]
          ELSE [res |-> Invalid(<<Msg(fieldName, "is required")>>),
                ran |-> <<>>]
     ELSE IF TypeOf(value) # "string"
     THEN [res |-> Invalid(<<Msg(fieldName, "must be a string")>>),
           ran |-> <<>>]
     ELSE IF looped.isValid
     THEN [res |-> Valid(looped.validData), ran |-> looped.ran]
     ELSE [res |-> Invalid(looped.errors), ran |-> looped.ran]

(***************************************************************************)
(* Password validator.                                                     *)
(***************************************************************************)
NewPassword == [cls |-> "Password", rules |-> <<>>, allowNull |-> FALSE]

PasswordNullable(self) == [self EXCEPT !.allowNull = TRUE]

PasswordContainsNumber(self) ==
  [self EXCEPT !.rules = Append(@, [op |-> "containsNumber", n |-> 0])]

PasswordContainsSpecialChar(self) ==
  [self EXCEPT !.rules = Append(@, [op |-> "containsSpecialChar", n |-> 0])]

PasswordContainsUppercase(self) ==
  [self EXCEPT !.rules = Append(@, [op |-> "containsUppercase", n |-> 0])]

PasswordMin(self, length) ==
  [self EXCEPT !.rules = Append(@, [op |-> "min", n |-> length])]

\* #regex(pattern, value, errorMessage) for a one-class pattern
regex(class, value, errorMessage) ==
  IF ~ContainsOneOf(value.s, class) THEN Reject(errorMessage) ELSE Pass(value)

\* the closure pushed by a rule-adding call; the one of min returns
\* { valid: true }, an object without value
PasswordRule(rule, value, fieldName) ==
  CASE rule.op = "containsNumber" ->
         regex(Digits, value,
               Msg(fieldName, "must contain at least one number."))
    [] rule.op = "containsSpecialChar" ->
         regex(SpecialChars, value,
               Msg(fieldName, "must contain at least one special character."))
    [] rule.op = "containsUppercase" ->
         regex(UpperCase, value,
               Msg(fieldName, "must contain at least one uppercase letter."))
    [] rule.op = "min" ->
         IF Length(value) < rule.n
         THEN Reject(MsgN(fieldName,
                "must be at least ${length} characters long.", rule.n))
         ELSE [valid |-> TRUE]

\* result.value
ValueOf(outcome) ==
  IF "value" \in DOMAIN outcome THEN outcome.value ELSE Undefined

\* the rule loop with the early exit PasswordValidator.validate does not have:
\* it stops at the first rule that fails
RECURSIVE PasswordRulesFromStopping(_, _, _, _, _)
PasswordRulesFromStopping(value, fieldName, rules, i, acc) ==
  IF i > Len(rules) THEN acc
  ELSE LET outcome == PasswordRule(rules[i], value, fieldName)
           called == Append(acc.ran, i)
       IN IF ~outcome.valid
          THEN [acc EXCEPT !.errors = Append(@, outcome.error),
                           !.isValid = FALSE, !.validData = Null,
                           !.ran = called]
          ELSE PasswordRulesFromStopping(value, fieldName, rules, i + 1,
                 [acc EXCEPT !.validData = ValueOf(outcome), !.ran = called])

RECURSIVE PasswordRulesFrom(_, _, _, _, _)
PasswordRulesFrom(value, fieldName, rules, i, acc) ==
  IF i > Len(rules) THEN acc
  ELSE LET outcome == PasswordRule(rules[i], value, fieldName)
           called == Append(acc.ran, i)
       IN IF ~outcome.valid
          THEN PasswordRulesFrom(value, fieldName, rules, i + 1,
                 [acc EXCEPT !.errors = Append(@, outcome.error),
                             !.isValid = FALSE, !.validData = Null,
                             !.ran = called])
          ELSE PasswordRulesFrom(value, fieldName, rules, i + 1,
                 [acc EXCEPT !.validData = ValueOf(outcome), !.ran = called])

\* PasswordValidator.validate(value, options)
PasswordValidate(self, value, options) ==
  LET fieldName == FieldNameOf(options, "Password")
      looped == PasswordRulesFrom(value, fieldName, self.rules, 1,
                  [isValid |-> TRUE, errors |-> <<>>, validData |-> value,
                   ran |-> <<>>])
  IN IF IsNullish(value) \/ LengthIsZero(value)
     THEN IF self.allowNull
          THEN [res |-> Valid(Null), ran |-> <<>>]
          ELSE [res |-> Invalid(<<Msg(fieldName, "is required.")>>),
                ran |-> <<>>]
     ELSE IF TypeOf(value) # "string"
     THEN [res |-> Invalid(<<Msg(fieldName, "must be a string.")>>),
           ran |-> <<>>]
     ELSE IF looped.isValid
     THEN [res |-> Valid(looped.validData), ran |-> looped.ran]
     ELSE [res |-> Invalid(looped.errors), ran |-> looped.ran]

(***************************************************************************)
(* File validator.                                                         *)
(***************************************************************************)
NewFile == [cls |-> "File", rules |-> <<>>, allowNull |-> FALSE]

FileNullable(self) == [self EXCEPT !.allowNull = TRUE]

\* the extension -> MIME type table of type()
MimeExtensions == {"jpg", "jpeg", "png", "gif", "pdf", "txt", "doc", "docx"}

mimeTypes(ext) ==
  CASE ext = "jpg" -> "image/jpg"
    [] ext = "jpeg" -> "image/jpeg"
    [] ext = "png" -> "image/png"
    [] ext = "gif" -> "image/gif"
    [] ext = "pdf" -> "application/pdf"
    [] ext = "txt" -> "text/plain"
    [] ext = "doc" -> "application/msword"
    [] ext = "docx" ->
       "application/vnd.openxmlformats-officedocument.wordprocessingml.document"

\* ext.toLowerCase() for the extensions the model passes to type()
ExtToLowerCase(ext) ==
  CASE ext = "JPG" -> "jpg" [] ext = "PNG" -> "png" [] ext = "PDF" -> "pdf"
    [] OTHER -> ext

\* the extensions of the list that are not in the table, in order
invalidExtensions(allowedExtensions) ==
  SelectSeq(allowedExtensions, LAMBDA ext : ExtToLowerCase(ext) \notin MimeExtensions)

allowedMimeTypes(allowedExtensions) ==
  LET known == SelectSeq(allowedExtensions,
                 LAMBDA ext : ExtToLowerCase(ext) \in MimeExtensions)
  IN [i \in 1..Len(known) |-> mimeTypes(ExtToLowerCase(known[i]))]

\* type() that never throws: unknown extensions are dropped
FileTypeNeverThrows(allowedExtensions) == FALSE

\* type(allowedExtensions, options) throws when an extension is unknown
FileTypeThrows(allowedExtensions) == invalidExtensions(allowedExtensions) # <<>>

FileType(self, allowedExtensions, message) ==
  [self EXCEPT !.rules =
     Append(@, [op |-> "type", exts |-> allowedExtensions,
                mimes |-> allowedMimeTypes(allowedExtensions),
                message |-> message])]

BytesPerMB == 1024 * 1024

FileMaxSize(self, maxSizeMB, message) ==
  [self EXCEPT !.rules =
     Append(@, [op |-> "maxSize", n |-> maxSizeMB,
                bytes |-> maxSizeMB * BytesPerMB, message |-> message])]

\* allowedMimeTypes.includes(type)
Includes(mimes, type) ==
  /\ type.t = "string" /\ "text" \in DOMAIN type
  /\ \E i \in 1..Len(mimes) : mimes[i] = type.text

\* file.size >= bytes
GreaterOrEqual(size, bytes) ==
  size.t = "number" /\ size.k = "int" /\ size.n >= bytes

\* file.size > bytes; the sizes of the model's descriptors are whole numbers
GreaterThan(size, bytes) == size.t = "number" /\ size.k = "int" /\ size.n > bytes

\* the closure pushed by type or maxSize, called as
\* rule(file, `${fieldName} ${i}`)
FileRule(rule, file, fieldName, i) ==
  IF rule.op = "type"
  THEN IF ~Includes(rule.mimes, file.type)
       THEN Reject(MessageOr(rule.message,
              MsgAtList(fieldName, i, "must be of type: ${extensions}",
                        rule.exts)))
       ELSE PassData(file)
  ELSE IF GreaterThan(file.size, rule.bytes)
       THEN Reject(MessageOr(rule.message,
              MsgAtN(fieldName, i, "size must not exceed ${maxSizeMB} MB",
                     rule.n)))
       ELSE PassData(file)

\* a rule loop for one file that would go on after a rule failed
RECURSIVE FileRulesFromAll(_, _, _, _, _, _)
FileRulesFromAll(file, fieldName, i, rules, j, acc) ==
  IF j > Len(rules) THEN acc
  ELSE LET outcome == FileRule(rules[j], file, fieldName, i)
           called == Append(acc.ran, <<i, j>>)
       IN IF ~outcome.valid
          THEN FileRulesFromAll(file, fieldName, i, rules, j + 1,
                 [acc EXCEPT !.errors = Append(@, outcome.error),
                             !.fileIsValid = FALSE, !.ran = called])
          ELSE FileRulesFromAll(file, fieldName, i, rules, j + 1,
                 [acc EXCEPT !.ran = called])

\* the rule loop for one file, from rule j on: it stops at the first rule
\* that fails
RECURSIVE FileRulesFrom(_, _, _, _, _, _)
FileRulesFrom(file, fieldName, i, rules, j, acc) ==
  IF j > Len(rules) THEN acc
  ELSE LET outcome == FileRule(rules[j], file, fieldName, i)
           called == Append(acc.ran, <<i, j>>)
       IN IF ~outcome.valid
          THEN [acc EXCEPT !.errors = Append(@, outcome.error),
                           !.fileIsValid = FALSE, !.ran = called]
          ELSE FileRulesFrom(file, fieldName, i, rules, j + 1,
                 [acc EXCEPT !.ran = called])

\* the loop over fileArray from element k on (k counts from 1, the index in
\* the messages from 0); reading file.type of null throws
RECURSIVE FilesFrom(_, _, _, _, _)
FilesFrom(fileArray, fieldName, rules, k, acc) ==
  IF k > Len(fileArray) THEN acc
  ELSE LET file == fileArray[k]
           i == k - 1
       IN IF TypeOf(file) = "object" /\ file.t = "null"
          THEN [acc EXCEPT !.raised = TRUE]
          ELSE IF \/ TypeOf(file) # "object"
                  \/ file.t = "array"
                  \/ Falsy(file.type) \/ Falsy(file.size)
          THEN FilesFrom(fileArray, fieldName, rules, k + 1,
                 [acc EXCEPT !.errors =
                               Append(@, MsgAt(fieldName, i, "invalid format")),
                             !.isValid = FALSE])
          ELSE LET one == FileRulesFrom(file, fieldName, i, rules, 1,
                            [errors |-> acc.errors, fileIsValid |-> TRUE,
                             ran |-> acc.ran])
               IN FilesFrom(fileArray, fieldName, rules, k + 1,
                    [acc EXCEPT
                       !.errors = one.errors,
                       !.ran = one.ran,
                       !.isValid = acc.isValid /\ one.fileIsValid,
                       !.validatedFiles =
                          IF one.fileIsValid THEN Append(@, file) ELSE @])

\* finalData without the special case of one file
finalDataAlwaysSequence(validatedFiles) == Arr(validatedFiles)

\* validatedFiles.length === 1 ? validatedFiles[0] : validatedFiles
finalData(validatedFiles) ==
  IF Len(validatedFiles) = 1 THEN validatedFiles[1] ELSE Arr(validatedFiles)

\* FileValidator.validate(files, options)
FileValidate(self, files, options) ==
  LET fieldName == FieldNameOf(options, "file")
      fileArray == IF IsArray(files) THEN files.items ELSE <<files>>
      looped == FilesFrom(fileArray, fieldName, self.rules, 1,
                  [isValid |-> TRUE, errors |-> <<>>, validatedFiles |-> <<>>,
                   raised |-> FALSE, ran |-> <<>>])
  IN IF IsNullish(files) \/ (IsArray(files) /\ Len(files.items) = 0)
     THEN IF self.allowNull
          THEN [res |-> Valid(Null), ran |-> <<>>]
          ELSE [res |-> InvalidWithData(<<Msg(fieldName, "is required")>>, Null),
                ran |-> <<>>]
     ELSE IF looped.raised
     THEN [res |-> Threw, ran |-> looped.ran]
     ELSE IF looped.isValid
     THEN [res |-> Valid(finalData(looped.validatedFiles)), ran |-> looped.ran]
     ELSE [res |-> InvalidWithData(looped.errors, Null), ran |-> looped.ran]

\* validator.validate(value, options), by the class of the validator
Validate(self, value, options) ==
  CASE self.cls = "String" -> StringValidate(self, value, options)
    [] self.cls = "Integer" -> IntegerValidate(self, value, options)
    [] self.cls = "Boolean" -> BooleanValidate(self, value, options)
    [] self.cls = "Email" -> EmailValidate(self, value, options)
    [] self.cls = "Password" -> PasswordValidate(self, value, options)
    [] self.cls = "File" -> FileValidate(self, value, options)

(***************************************************************************)
(* Object schema.                                                          *)
(***************************************************************************)
\* a JavaScript object used as a map: its entries in insertion order;
\* assigning to a key it has keeps the key's place
Has(map, key) == \E i \in 1..Len(map) : map[i].key = key
Get(map, key) == map[CHOOSE i \in 1..Len(map) : map[i].key = key].value
\* an assignment that would add an entry also for a key the map has
PutAnother(map, key, value) == Append(map, [key |-> key, value |-> value])
Put(map, key, value) ==
  IF Has(map, key)
  THEN [i \in 1..Len(map) |->
          IF map[i].key = key THEN [key |-> key, value |-> value] ELSE map[i]]
  ELSE Append(map, [key |-> key, value |-> value])

\* #validatePasswordConfirmation(data): data is a function from the keys to
\* values, Undefined for a key the object lacks
validatePasswordConfirmation(fields) ==
  LET password == fields["password"]
      confirmPassword == fields["password_confirmation"]
  IN IF confirmPassword # Undefined /\ password # confirmPassword
     THEN [valid |-> FALSE, error |-> Verbatim("Password do not match")]
     ELSE [valid |-> TRUE]

\* data[key] ?? null
OrNull(value) == IF IsNullish(value) THEN Null ELSE value

\* the body of the loop of parseData for one key, outcome being what the
\* key's validator returned (or that it threw); visited lists the keys whose
\* validator was called
parseKey(key, fields, acc, outcome) ==
  LET confirmationResult == validatePasswordConfirmation(fields)
      called == Append(acc.visited, key)
      checked ==
        IF key = "password" /\ ~confirmationResult.valid
        THEN [acc EXCEPT
                !.errors = Put(@, "password_confirmation",
                               confirmationResult.error),
                !.isValid = FALSE, !.visited = called]
        ELSE [acc EXCEPT !.visited = called]
  IN IF HasRaised(outcome)
     THEN [checked EXCEPT !.raised = TRUE]
     ELSE IF ~outcome.valid
     THEN [checked EXCEPT !.errors = Put(@, key, outcome.errors[1]),
                          !.isValid = FALSE]
     ELSE [checked EXCEPT !.validData = Put(@, key, outcome.data)]

\* the loop of parseData from the k-th key of the schema on; a validator
\* that throws ends it
RECURSIVE parseDataFrom(_, _, _, _)
parseDataFrom(sch, fields, k, acc) ==
  IF k > Len(sch) \/ acc.raised THEN acc
  ELSE parseDataFrom(sch, fields, k + 1,
         parseKey(sch[k].key, fields, acc,
                  Validate(sch[k].validator, OrNull(fields[sch[k].key]),
                           Options(sch[k].key)).res))

\* ObjectSchema.parseData(data): the result and the keys visited
parseData(sch, fields) ==
  LET looped == parseDataFrom(sch, fields, 1,
                  [errors |-> <<>>, validData |-> <<>>, isValid |-> TRUE,
                   raised |-> FALSE, visited |-> <<>>])
  IN IF looped.raised
     THEN [res |-> Threw, visited |-> looped.visited]
     ELSE IF looped.isValid
     THEN [res |-> Valid(looped.validData), visited |-> looped.visited]
     ELSE [res |-> Invalid(looped.errors), visited |-> looped.visited]

(***************************************************************************)
(* The arguments the model passes to the calls.  message is               *)
(* options.message of a rule-adding call, "" when it is absent.            *)
(***************************************************************************)
\* options of validate
OptionsGiven == {NoOptions, Options("Age")}

StringMinArgs ==
  {[length |-> 3, message |-> ""], [length |-> 5, message |-> ""],
   [length |-> 3, message |-> "Too short!"]}
StringMaxArgs ==
  {[length |-> 3, message |-> ""], [length |-> 5, message |-> ""],
   [length |-> 5, message |-> "Too long!"]}
StringInputs ==
  {Null, Undefined, Num(5), Str(<<>>),
   Str(<<"a", "b">>), Str(<<"a", "b", "c", "d">>),
   Str(<<" ", " ", "a", "b", " ", " ">>),
   Str(<<" ", " ", "a", "b", "c", "d", " ", " ">>),
   Arr(<<>>), Arr(<<Str(<<"a", "b">>), Str(<<"a", "b", "c", "d">>)>>),
   Arr(<<Str(<<"a", "b">>), Num(5)>>)}

IntegerMinArgs ==
  {[minValue |-> 0, message |-> ""], [minValue |-> 18, message |-> ""],
   [minValue |-> 18, message |-> "You must be at least 18 years old"]}
IntegerMaxArgs ==
  {[maxValue |-> 0, message |-> ""], [maxValue |-> 18, message |-> ""]}
IntegerPositiveArgs == {[message |-> ""]}
IntegerInputs ==
  {Null, Undefined, Str(<<>>), NaN, Frac(3),
   Num(0 - 1), Num(0), Num(17), Num(18),
   Str(<<"4", "2">>), Str(<<"a", "b", "c">>),
   Str(<<"1", "2", "a", "b", "c">>), Str(<<"3", ".", "7">>)}

BooleanInputs ==
  {Null, Undefined, Num(1), Bool(TRUE), Bool(FALSE),
   Str(<<"t", "r", "u", "e">>), Str(<<"T", "R", "U", "E">>), Str(<<"1">>),
   Str(<<"f", "a", "l", "s", "e">>), Str(<<"0">>), Str(<<"y", "e", "s">>)}

EmailMessages == {"", "Invalid email format"}
EmailMaxArgs ==
  {[length |-> 5, message |-> ""], [length |-> 6, message |-> ""],
   [length |-> 5, message |-> "Too long!"]}
EmailInputs ==
  {Null, Undefined, Num(5), Str(<<>>),
   Str(<<"a", "@", "b", ".", "c">>), Str(<<"a", "@", "b", ".", "c", "o">>),
   Str(<<"a", "b", "@", "c", "d", ".", "o", "r", "g">>),
   Str(<<"n", "o", "t", "-", "a", "n", "-", "e", "m", "a", "i", "l">>)}

PasswordLengths == {3, 8}
PasswordInputs ==
  {Null, Undefined, Num(5), Str(<<>>),
   Str(<<"a", "b">>), Str(<<"a", "b", "c", "1">>),
   Str(<<"a", "b", "c", "d", "e", "f", "g">>),
   Str(<<"1", "2", "3", "4", "5", "6", "7">>),
   Str(<<"A", "b", "c", "d", "e", "f", "1", "!">>)}

FileTypeArgs ==
  {[allowedExtensions |-> <<"jpg">>, message |-> ""],
   [allowedExtensions |-> <<"JPG", "png">>, message |-> ""],
   [allowedExtensions |-> <<"jpg">>, message |-> "Images only"],
   [allowedExtensions |-> <<"exe">>, message |-> ""],
   [allowedExtensions |-> <<"pdf", "exe">>, message |-> ""]}
FileMaxSizeArgs ==
  {[maxSizeMB |-> 5, message |-> ""], [maxSizeMB |-> 5, message |-> "Too big"]}
Jpg == Obj(Text("image/jpg"), Num(1000))
JpgAtLimit == Obj(Text("image/jpg"), Num(5 * BytesPerMB))
BigJpg == Obj(Text("image/jpg"), Num(5 * BytesPerMB + 1))
BigPdf == Obj(Text("application/pdf"), Num(6 * BytesPerMB))
EmptyPng == Obj(Text("image/png"), Num(0))
NoType == Obj(Undefined, Num(1000))
FileInputs ==
  {Null, Undefined, Num(5), Arr(<<>>),
   Jpg, JpgAtLimit, BigPdf, EmptyPng, NoType,
   Arr(<<Jpg>>), Arr(<<Jpg, Jpg>>), Arr(<<Jpg, BigJpg>>), Arr(<<BigPdf, Jpg>>),
   Arr(<<NoType, BigJpg>>), Arr(<<Jpg, Null>>)}

(***************************************************************************)
(* The calls on one validator.  call is the last call made, result what    *)
(* it returned (This for a chaining call) or that it threw, ran the rules  *)
(* a validate call executed.                                               *)
(***************************************************************************)
NoCall == [op |-> "new"]
This == [this |-> TRUE]
ThrewError == [raised |-> "Error"]
NoSchemaCall == [pending |-> TRUE]

Init ==
  /\ validator \in {NewString, NewInteger, NewBoolean, NewPassword, NewFile}
                      \cup {NewEmail(message) : message \in EmailMessages}
  /\ call = NoCall
  /\ result = This
  /\ ran = <<>>
  /\ schema = <<>>
  /\ input = NoSchemaCall
  /\ parsed = NoSchemaCall
  /\ visited = <<>>

\* a rule-adding or flag-setting call that returns this
Chained(next, made) ==
  /\ validator' = next
  /\ call' = made
  /\ result' = This
  /\ ran' = <<>>
  /\ UNCHANGED <<schema, input, parsed, visited>>

CanAddRule == Len(validator.rules) < MaxRules

nullable ==
  /\ Chained(CASE validator.cls = "String" -> StringNullable(validator)
               [] validator.cls = "Integer" -> IntegerNullable(validator)
               [] validator.cls = "Boolean" -> BooleanNullable(validator)
               [] validator.cls = "Email" -> EmailNullable(validator)
               [] validator.cls = "Password" -> PasswordNullable(validator)
               [] validator.cls = "File" -> FileNullable(validator),
             [op |-> "nullable"])

array ==
  /\ validator.cls = "String"
  /\ Chained(StringArray(validator), [op |-> "array"])

stringMin ==
  /\ validator.cls = "String" /\ CanAddRule
  /\ \E args \in StringMinArgs :
       Chained(StringMin(validator, args.length, args.message), [op |-> "min"])

stringMax ==
  /\ validator.cls = "String" /\ CanAddRule
  /\ \E args \in StringMaxArgs :
       Chained(StringMax(validator, args.length, args.message), [op |-> "max"])

integerMin ==
  /\ validator.cls = "Integer" /\ CanAddRule
  /\ \E args \in IntegerMinArgs :
       Chained(IntegerMin(validator, args.minValue, args.message),
               [op |-> "min"])

integerMax ==
  /\ validator.cls = "Integer" /\ CanAddRule
  /\ \E args \in IntegerMaxArgs :
       Chained(IntegerMax(validator, args.maxValue, args.message),
               [op |-> "max"])

integerPositive ==
  /\ validator.cls = "Integer" /\ CanAddRule
  /\ \E args \in IntegerPositiveArgs :
       Chained(IntegerPositive(validator, args.message), [op |-> "positive"])

emailMax ==
  /\ validator.cls = "Email" /\ CanAddRule
  /\ \E args \in EmailMaxArgs :
       Chained(EmailMax(validator, args.length, args.message), [op |-> "max"])

passwordMin ==
  /\ validator.cls = "Password" /\ CanAddRule
  /\ \E length \in PasswordLengths :
       Chained(PasswordMin(validator, length), [op |-> "min"])

passwordContainsNumber ==
  /\ validator.cls = "Password" /\ CanAddRule
  /\ Chained(PasswordContainsNumber(validator), [op |-> "containsNumber"])

passwordContainsSpecialChar ==
  /\ validator.cls = "Password" /\ CanAddRule
  /\ Chained(PasswordContainsSpecialChar(validator),
             [op |-> "containsSpecialChar"])

passwordContainsUppercase ==
  /\ validator.cls = "Password" /\ CanAddRule
  /\ Chained(PasswordContainsUppercase(validator),
             [op |-> "containsUppercase"])

\* type() throws before it pushes a rule when an extension is unknown
fileType ==
  /\ validator.cls = "File" /\ CanAddRule
  /\ \E args \in FileTypeArgs :
       IF FileTypeThrows(args.allowedExtensions)
       THEN /\ call' = [op |-> "type", exts |-> args.allowedExtensions]
            /\ result' = ThrewError
            /\ ran' = <<>>
            /\ UNCHANGED <<validator, schema, input, parsed, visited>>
       ELSE Chained(FileType(validator, args.allowedExtensions, args.message),
                    [op |-> "type", exts |-> args.allowedExtensions])

fileMaxSize ==
  /\ validator.cls = "File" /\ CanAddRule
  /\ \E args \in FileMaxSizeArgs :
       Chained(FileMaxSize(validator, args.maxSizeMB, args.message),
               [op |-> "maxSize"])

InputsOf(cls) ==
  CASE cls = "String" -> StringInputs
    [] cls = "Integer" -> IntegerInputs
    [] cls = "Boolean" -> BooleanInputs
    [] cls = "Email" -> EmailInputs
    [] cls = "Password" -> PasswordInputs
    [] cls = "File" -> FileInputs

\* a validate that would set the nullable flag of the validator it runs on
validateSettingNullable ==
  \E value \in InputsOf(validator.cls), options \in OptionsGiven :
    LET done == Validate(validator, value, options)
    IN /\ call' = [op |-> "validate", value |-> value, options |-> options]
       /\ result' = done.res
       /\ ran' = done.ran
       /\ validator' = [validator EXCEPT !.allowNull = TRUE]
       /\ UNCHANGED <<schema, input, parsed, visited>>

\* validate(value, options) leaves the validator as it is
validate ==
  \E value \in InputsOf(validator.cls), options \in OptionsGiven :
    LET done == Validate(validator, value, options)
    IN /\ call' = [op |-> "validate", value |-> value, options |-> options]
       /\ result' = done.res
       /\ ran' = done.ran
       /\ UNCHANGED <<validator, schema, input, parsed, visited>>

Next ==
  \/ nullable \/ array
  \/ stringMin \/ stringMax
  \/ integerMin \/ integerMax \/ integerPositive
  \/ emailMax
  \/ passwordMin \/ passwordContainsNumber \/ passwordContainsSpecialChar
  \/ passwordContainsUppercase
  \/ fileType \/ fileMaxSize
  \/ validate

Spec == Init /\ [][Next]_vars

(***************************************************************************)
(* The calls on one object schema.  schema is the mapping the constructor  *)
(* was given, as its keys in order; input is the object of the last        *)
(* parseData call, parsed what it returned, visited the keys whose         *)
(* validator it called.                                                    *)
(***************************************************************************)
SchemaKeys == {"age", "password", "password_confirmation"}

\* the configured validators a schema is built from
FieldValidators ==
  {IntegerMin(NewInteger, 18, ""),
   StringMin(NewString, 3, ""),
   PasswordContainsNumber(PasswordMin(NewPassword, 3))}

FieldValues ==
  {Undefined, Null, Num(15), Str(<<"a", "b">>), Str(<<"1", "2", "3">>)}

\* the objects given to parseData: every key holds a value or is missing
DataObjects == [SchemaKeys -> FieldValues]

NoFields ==
  /\ validator = NewString
  /\ call = NoCall
  /\ result = This
  /\ ran = <<>>

InitSchema ==
  /\ NoFields
  /\ schema = <<>>
  /\ input = NoSchemaCall
  /\ parsed = NoSchemaCall
  /\ visited = <<>>

\* one more key: validator pair of the object literal given to object()
field ==
  /\ parsed = NoSchemaCall
  /\ Len(schema) < MaxFields
  /\ \E key \in SchemaKeys \ {schema[i].key : i \in 1..Len(schema)},
        fieldValidator \in FieldValidators :
       schema' = Append(schema, [key |-> key, validator |-> fieldValidator])
  /\ UNCHANGED <<validator, call, result, ran, input, parsed, visited>>

\* parseData(data) leaves the schema as it is
parse ==
  \E fields \in DataObjects :
    LET done == parseData(schema, fields)
    IN /\ input' = fields
       /\ parsed' = done.res
       /\ visited' = done.visited
       /\ UNCHANGED <<validator, call, result, ran, schema>>

NextSchema == field \/ parse

SchemaSpec == InitSchema /\ [][NextSchema]_vars

\* the library as a whole: either a primitive validator and the calls made
\* on it, or an object schema and the calls made on it
LibraryNext ==
  \/ schema = <<>> /\ parsed = NoSchemaCall /\ Next
  \/ NoFields /\ NextSchema

LibrarySpec == Init /\ [][LibraryNext]_vars

(***************************************************************************)
(* Properties.                                                             *)
(***************************************************************************)
IsValidateCall == call.op = "validate"
Returned(r) == "valid" \in DOMAIN r
Failed(r) == Returned(r) /\ ~r.valid
Succeeded(r) == Returned(r) /\ r.valid

\* the name a message starts with when validate is given no fieldName
DefaultFieldName(cls) ==
  CASE cls \in {"String", "Integer", "Boolean"} -> "value"
    [] cls = "Email" -> "Email"
    [] cls = "Password" -> "Password"
    [] cls = "File" -> "file"

CalledFieldName == FieldNameOf(call.options, DefaultFieldName(validator.cls))

\* "<name> is required", with or without a full stop
IsRequiredMessage(m, name) ==
  m \in {Msg(name, "is required"), Msg(name, "is required.")}

\* C1: validate(null) runs no rule; without nullable() it returns
\* valid:false with the one error "<fieldName> is required", with
\* nullable() it returns {valid:true, data:null}
C1_NullIsRequiredOrAllowed ==
  (IsValidateCall /\ call.value = Null) =>
     /\ ran = <<>>
     /\ IF validator.allowNull
        THEN result = Valid(Null)
        ELSE /\ Failed(result)
             /\ Len(result.errors) = 1
             /\ IsRequiredMessage(result.errors[1], CalledFieldName)

\* the length rule of a String validator is violated by a string of this
\* trimmed length
LengthRuleViolated(rule, trimmedLength) ==
  IF rule.op = "min" THEN trimmedLength < rule.n ELSE trimmedLength > rule.n

IsStringInput ==
  /\ IsValidateCall /\ validator.cls = "String" /\ ~validator.isArray
  /\ call.value.t = "string" /\ Len(call.value.s) > 0

\* C2: String validator, for a (non-empty) string s: validate(s) returns
\* valid:false exactly when the trimmed length of s is below the n of some
\* added min(n) or above the m of some added max(m)
C2_LengthRulesUseTrimmedLength ==
  IsStringInput =>
     /\ Returned(result)
     /\ ~result.valid <=>
          \E i \in 1..Len(validator.rules) :
            LengthRuleViolated(validator.rules[i], Len(Trim(call.value.s)))

\* s is an optional sign followed by digits only: it denotes a base-10 integer
DenotesInteger(s) ==
  LET signed == s # <<>> /\ Head(s) \in {"+", "-"}
      digits == IF signed THEN Tail(s) ELSE s
  IN digits # <<>> /\ \A i \in 1..Len(digits) : digits[i] \in Digits

IntegerRuleHolds(rule, n) ==
  CASE rule.op = "min" -> n >= rule.n
    [] rule.op = "max" -> n <= rule.n
    [] rule.op = "positive" -> n > 0

\* C3: Integer validator, for a string that denotes the base-10 integer n and
\* satisfies every added rule (or no rule was added): validate returns
\* {valid:true, data:n}, data being the number n and not the string
C3_IntegerStringIsCoerced ==
  (/\ IsValidateCall /\ validator.cls = "Integer"
   /\ call.value.t = "string" /\ DenotesInteger(call.value.s)
   /\ \A i \in 1..Len(validator.rules) :
        IntegerRuleHolds(validator.rules[i], ParseInt(call.value.s).n))
  => result = Valid(ParseInt(call.value.s))

\* a password rule is violated by the string s
PasswordRuleViolated(rule, s) ==
  CASE rule.op = "min" -> Len(s) < rule.n
    [] rule.op = "containsNumber" -> \A i \in 1..Len(s) : s[i] \notin Digits
    [] rule.op = "containsSpecialChar" ->
         \A i \in 1..Len(s) : s[i] \notin SpecialChars
    [] rule.op = "containsUppercase" ->
         \A i \in 1..Len(s) : s[i] \notin UpperCase

\* the message of a password rule
PasswordRuleMessage(rule, name) ==
  CASE rule.op = "min" ->
         MsgN(name, "must be at least ${length} characters long.", rule.n)
    [] rule.op = "containsNumber" ->
         Msg(name, "must contain at least one number.")
    [] rule.op = "containsSpecialChar" ->
         Msg(name, "must contain at least one special character.")
    [] rule.op = "containsUppercase" ->
         Msg(name, "must contain at least one uppercase letter.")

\* the messages of the rules that s violates, in the order of the rules
RECURSIVE ViolatedMessages(_, _, _)
ViolatedMessages(rules, s, name) ==
  IF rules = <<>> THEN <<>>
  ELSE (IF PasswordRuleViolated(Head(rules), s)
        THEN <<PasswordRuleMessage(Head(rules), name)>> ELSE <<>>)
       \o ViolatedMessages(Tail(rules), s, name)

IsPasswordInput ==
  /\ IsValidateCall /\ validator.cls = "Password"
  /\ call.value.t = "string" /\ Len(call.value.s) > 0

\* C4: Password validator, for a non-empty string: every added rule is
\* executed, also after an earlier rule failed, and errors holds exactly one
\* message per violated rule, in the order the rules were added; with no
\* violated rule the result is valid
C4_PasswordCollectsEveryViolation ==
  IsPasswordInput =>
     LET expected == ViolatedMessages(validator.rules, call.value.s,
                                      CalledFieldName)
     IN /\ ran = [i \in 1..Len(validator.rules) |-> i]
        /\ Returned(result)
        /\ IF expected = <<>> THEN result.valid
           ELSE result = Invalid(expected)

\* validate("abcdefg") with min(8) and containsSpecialChar() has returned
\* both messages
C4_Witness ==
  /\ IsPasswordInput
  /\ call.value = Str(<<"a", "b", "c", "d", "e", "f", "g">>)
  /\ validator.rules = <<[op |-> "min", n |-> 8],
                         [op |-> "containsSpecialChar", n |-> 0]>>
  /\ Failed(result) /\ Len(result.errors) = 2
  /\ ran = <<1, 2>>

HasParsed == parsed # NoSchemaCall
SchemaKey(k) == schema[k].key

\* what the validator of the k-th schema field returns for the parsed object
FieldOutcome(k) ==
  Validate(schema[k].validator, OrNull(input[SchemaKey(k)]),
           Options(SchemaKey(k))).res

\* C5: for every schema field whose validator returns valid:false, parseData
\* returns errors[field] equal to the first element of that validator's
\* errors list
C5_FieldErrorIsFirstError ==
  HasParsed =>
    \A k \in 1..Len(schema) :
      Failed(FieldOutcome(k)) =>
        /\ Failed(parsed)
        /\ Has(parsed.errors, SchemaKey(k))
        /\ Get(parsed.errors, SchemaKey(k)) = FieldOutcome(k).errors[1]

\* the confirmation check runs (the schema has a password key) and finds
\* password_confirmation present and different from password
MismatchDetected ==
  /\ \E k \in 1..Len(schema) : SchemaKey(k) = "password"
  /\ input["password_confirmation"] # Undefined
  /\ input["password"] # input["password_confirmation"]

\* C6: parseData validates every schema field, also after an earlier field
\* failed; it returns valid:true iff every field's validator returned
\* valid:true and no confirmation mismatch was detected, and on valid:false
\* errors has an entry for each failing field
C6_EveryFieldIsValidated ==
  HasParsed =>
    /\ visited = [k \in 1..Len(schema) |-> SchemaKey(k)]
    /\ Returned(parsed)
    /\ parsed.valid <=>
         /\ \A k \in 1..Len(schema) : Succeeded(FieldOutcome(k))
         /\ ~MismatchDetected
    /\ ~parsed.valid =>
         \A k \in 1..Len(schema) :
           Failed(FieldOutcome(k)) => Has(parsed.errors, SchemaKey(k))

\* C7: with a password key in the schema and a password_confirmation that is
\* present and differs from password, parseData returns valid:false with
\* errors.password_confirmation set, whatever the password validator
\* returns; otherwise the check adds no error
C7_ConfirmationMismatchFails ==
  HasParsed =>
    IF MismatchDetected
    THEN Failed(parsed) /\ Has(parsed.errors, "password_confirmation")
    ELSE (Failed(parsed) /\ Has(parsed.errors, "password_confirmation")) =>
           \E k \in 1..Len(schema) :
             SchemaKey(k) = "password_confirmation" /\ Failed(FieldOutcome(k))

\* a message given by the caller as options.message
IsCustomMessage(m) == "verbatim" \in DOMAIN m

\* the shape check of a file descriptor: a non-null, non-array object with
\* truthy type and size
ShapeOk(file) ==
  /\ TypeOf(file) = "object" /\ file.t \notin {"null", "array"}
  /\ ~Falsy(file.type) /\ ~Falsy(file.size)

ElementFails(file, rules, name, i) ==
  \/ ~ShapeOk(file)
  \/ \E j \in 1..Len(rules) : ~FileRule(rules[j], file, name, i).valid

\* C8: File validator, sequence input: if any element fails the shape check
\* or an added rule, validate returns valid:false with data null, and each
\* error (but a message given as options.message) names a failing element by
\* its index as "<fieldName> <i>"; if every element passes, validate returns
\* valid:true
C8_FileSequenceIsAllOrNothing ==
  (/\ IsValidateCall /\ validator.cls = "File"
   /\ IsArray(call.value) /\ Len(call.value.items) > 0)
  => LET items == call.value.items
         failing == {k \in 1..Len(items) :
                       ElementFails(items[k], validator.rules,
                                    CalledFieldName, k - 1)}
     IN IF failing = {} THEN Succeeded(result)
        ELSE /\ Failed(result)
             /\ result.data = Null
             /\ \A e \in 1..Len(result.errors) :
                  \/ IsCustomMessage(result.errors[e])
                  \/ /\ "idx" \in DOMAIN result.errors[e]
                     /\ result.errors[e].name = CalledFieldName
                     /\ result.errors[e].idx + 1 \in failing

\* the message an Email validator was constructed with, given to email() or
\* its default
IsFormatMessage(m) == validator.cls = "Email" /\ m = validator.message

\* C9: every built-in error message of the required check, the type check
\* and the added rules starts with the field name: options.fieldName when
\* given, else the validator's default name; so the messages of Integer min,
\* max and positive start with it
C9_MessagesStartWithFieldName ==
  (IsValidateCall /\ Failed(result)) =>
    \A e \in 1..Len(result.errors) :
      \/ IsCustomMessage(result.errors[e])
      \/ IsFormatMessage(result.errors[e])
      \/ result.errors[e].name = CalledFieldName

\* C10: String validator, for a string input on which validate returns
\* valid:true: data is the input with leading and trailing whitespace
\* removed
C10_StringDataIsTrimmed ==
  (IsStringInput /\ Succeeded(result)) =>
    result.data = Str(Trim(call.value.s))

\* C11: Password validator, for a non-empty string p that violates no added
\* rule (or with no rule added): validate(p) returns {valid:true, data:p},
\* whatever rule was added last
C11_PasswordDataIsInput ==
  (/\ IsPasswordInput
   /\ \A i \in 1..Len(validator.rules) :
        ~PasswordRuleViolated(validator.rules[i], call.value.s))
  => result = Valid(call.value)

IsIntegerCall == IsValidateCall /\ validator.cls = "Integer"

\* the input is not a whole number after conversion: a number with a
\* fractional part, NaN, or a non-empty string that is not, as a whole, a
\* base-10 integer
NotWholeNumber(x) ==
  \/ x.t = "number" /\ x.k # "int"
  \/ x.t = "string" /\ Len(x.s) > 0 /\ ~DenotesInteger(x.s)

\* C12: Integer validator, for an input that is not a whole number after
\* conversion ("abc", "12abc", "3.7", 3.5, NaN): validate returns valid:false
\* with the single error "<fieldName> must be an integer" and runs no rule
C12_NotWholeNumberIsRejected ==
  (IsIntegerCall /\ NotWholeNumber(call.value)) =>
     /\ result = Invalid(<<Msg(CalledFieldName, "must be an integer")>>)
     /\ ran = <<>>

IsWholeNumber(x) == x.t = "number" /\ x.k = "int"

\* C13: Integer validator, for an integer v: min(a) fails iff v < a, max(b)
\* iff v > b, positive() iff v <= 0; validate(v) runs every added rule, is
\* valid iff no added rule fails and else holds one error per failing rule
C13_IntegerRuleBounds ==
  (IsIntegerCall /\ IsWholeNumber(call.value)) =>
     LET failing == {i \in 1..Len(validator.rules) :
                       ~IntegerRuleHolds(validator.rules[i], call.value.n)}
     IN /\ ran = [i \in 1..Len(validator.rules) |-> i]
        /\ Returned(result)
        /\ result.valid <=> failing = {}
        /\ ~result.valid => Len(result.errors) = Cardinality(failing)

\* validate(18) with min(18) and max(18) has passed
C13_Witness ==
  /\ IsIntegerCall /\ call.value = Num(18)
  /\ Len(validator.rules) = 2
  /\ validator.rules[1].op = "min" /\ validator.rules[1].n = 18
  /\ validator.rules[2].op = "max" /\ validator.rules[2].n = 18
  /\ Succeeded(result) /\ ran = <<1, 2>>

IsBooleanCall == IsValidateCall /\ validator.cls = "Boolean"

\* the string s is the word, each letter in either case
IsWord(s, lower, upper) ==
  /\ Len(s) = Len(lower)
  /\ \A i \in 1..Len(s) : s[i] \in {lower[i], upper[i]}

MeansTrue(x) ==
  /\ x.t = "string"
  /\ \/ IsWord(x.s, <<"t", "r", "u", "e">>, <<"T", "R", "U", "E">>)
     \/ x.s = <<"1">>

MeansFalse(x) ==
  /\ x.t = "string"
  /\ \/ IsWord(x.s, <<"f", "a", "l", "s", "e">>, <<"F", "A", "L", "S", "E">>)
     \/ x.s = <<"0">>

\* C14: Boolean validator, for a non-null input: "true" and "1" in any
\* letter case give {valid:true, data:true}, "false" and "0" give
\* {valid:true, data:false}, a boolean is returned unchanged as data, and
\* every other input gives valid:false with "<fieldName> must be a boolean"
C14_BooleanCoercion ==
  (IsBooleanCall /\ call.value # Null) =>
     result = CASE MeansTrue(call.value) -> Valid(Bool(TRUE))
                [] MeansFalse(call.value) -> Valid(Bool(FALSE))
                [] call.value.t = "boolean" -> Valid(call.value)
                [] OTHER -> Invalid(<<Msg(CalledFieldName, "must be a boolean")>>)

\* validate("TRUE") has returned true
C14_Witness ==
  /\ IsBooleanCall /\ call.value = Str(<<"T", "R", "U", "E">>)
  /\ result = Valid(Bool(TRUE))

IsEmailInput ==
  /\ IsValidateCall /\ validator.cls = "Email"
  /\ call.value.t = "string" /\ Len(call.value.s) > 0

\* s is local@domain.tld: a local part, "@", a domain, "." and a tld of at
\* least minTld letters
HasAddressForm(s, minTld) ==
  \E at \in 1..Len(s) : \E dot \in 1..Len(s) :
    /\ s[at] = "@" /\ s[dot] = "."
    /\ at > 1 /\ dot > at + 1 /\ Len(s) - dot >= minTld
    /\ \A i \in 1..(at - 1) : s[i] \in LocalChars
    /\ \A i \in (at + 1)..(dot - 1) : s[i] \in DomainChars
    /\ \A i \in (dot + 1)..Len(s) : s[i] \in Letters

\* C15 as stated: Email validator with no added rule accepts every string
\* of the form local@domain.tld, "a@b.c" included, with the string as data,
\* and rejects every other string with the format message
C15_AcceptsEveryAddress ==
  (IsEmailInput /\ validator.rules = <<>>) =>
     result = IF HasAddressForm(call.value.s, 1)
              THEN Valid(call.value)
              ELSE Invalid(<<validator.message>>)

\* C15 amended: Email validator with no added rule accepts exactly the
\* strings of the form local@domain.tld whose tld has at least two letters
\* ("a@b.co"), with the string as data; it rejects every other string,
\* "a@b.c" and "not-an-email" included, with the format message
C15_AcceptsTwoLetterTld ==
  (IsEmailInput /\ validator.rules = <<>>) =>
     result = IF HasAddressForm(call.value.s, 2)
              THEN Valid(call.value)
              ELSE Invalid(<<validator.message>>)

\* validate("a@b.c") has been rejected with the format message
C15_Witness ==
  /\ IsEmailInput /\ validator.rules = <<>>
  /\ call.value = Str(<<"a", "@", "b", ".", "c">>)
  /\ result = Invalid(<<validator.message>>)

\* C16: Email validator with max(n) rules, for a string of valid format:
\* validate fails iff the raw length exceeds the n of some rule (a length
\* equal to n passes), and errors then holds only length messages, one per
\* exceeded rule
C16_EmailMaxUsesRawLength ==
  (/\ IsEmailInput /\ validator.rules # <<>>
   /\ HasAddressForm(call.value.s, 2))
  => LET exceeded == {i \in 1..Len(validator.rules) :
                        Len(call.value.s) > validator.rules[i].n}
     IN /\ Returned(result)
        /\ ~result.valid <=> exceeded # {}
        /\ ~result.valid =>
             /\ Len(result.errors) = Cardinality(exceeded)
             /\ \A e \in 1..Len(result.errors) :
                  result.errors[e] # validator.message

\* validate("a@b.co") with max(5) has failed with one error
C16_Witness ==
  /\ IsEmailInput /\ call.value = Str(<<"a", "@", "b", ".", "c", "o">>)
  /\ Len(validator.rules) = 1 /\ validator.rules[1].n = 5
  /\ Failed(result) /\ Len(result.errors) = 1

IsFileCall == IsValidateCall /\ validator.cls = "File"

\* the elements validate looks at: the elements of a sequence, or the one
\* value given
FilesGiven(x) == IF IsArray(x) THEN x.items ELSE <<x>>

\* the input is a descriptor object or a non-empty sequence
IsFileInput ==
  /\ IsFileCall /\ ~IsNullish(call.value)
  /\ IsArray(call.value) => Len(call.value.items) > 0

\* C17 as stated: File validator, for an input that passes: a single
\* descriptor yields that descriptor as data, and a sequence, also of one
\* descriptor, yields the sequence of all its descriptors in input order
C17_DataHasShapeOfInput ==
  (IsFileInput /\ Succeeded(result)) => result.data = call.value

\* C17 amended: File validator, for an input that passes: one descriptor,
\* given alone or as a sequence of exactly one element, yields that
\* descriptor as data; a sequence of two or more descriptors yields the
\* sequence of all of them in input order
C17_OneFileIsScalar ==
  (IsFileInput /\ Succeeded(result)) =>
     result.data = IF Len(FilesGiven(call.value)) = 1
                   THEN FilesGiven(call.value)[1]
                   ELSE call.value

\* validate([jpg]) has returned the descriptor itself
C17_Witness ==
  /\ IsFileInput /\ call.value = Arr(<<Jpg>>)
  /\ result = Valid(Jpg)

\* some listed extension is not in the table
HasUnknownExtension(exts) ==
  \E i \in 1..Len(exts) : ExtToLowerCase(exts[i]) \notin MimeExtensions

\* the MIME types the listed extensions resolve to
ResolvedTypes(exts) == {mimeTypes(ExtToLowerCase(exts[i])) : i \in 1..Len(exts)}

OnlyRules(rules, op) == \A j \in 1..Len(rules) : rules[j].op = op

\* a type(extensions) call: it throws and leaves the validator as it was, or
\* returns this with one type rule added
TypeCallIsChecked ==
  call'.op = "type" =>
    IF HasUnknownExtension(call'.exts)
    THEN HasRaised(result') /\ validator' = validator
    ELSE /\ result' = This
         /\ Len(validator'.rules) = Len(validator.rules) + 1
         /\ SubSeq(validator'.rules, 1, Len(validator.rules)) = validator.rules
         /\ validator'.rules[Len(validator'.rules)].op = "type"
         /\ validator'.rules[Len(validator'.rules)].exts = call'.exts

\* a validate call on a descriptor, the validator holding type rules only
TypeRuleIsApplied ==
  (/\ call'.op = "validate" /\ validator'.cls = "File"
   /\ ShapeOk(call'.value) /\ OnlyRules(validator'.rules, "type"))
  => /\ Returned(result')
     /\ result'.valid <=>
          \A j \in 1..Len(validator'.rules) :
            call'.value.type.text \in ResolvedTypes(validator'.rules[j].exts)

C19_MaxSizeLimit ==
  (/\ IsFileInput
   /\ \A k \in 1..Len(FilesGiven(call.value)) :
        ShapeOk(FilesGiven(call.value)[k])
   /\ validator.rules # <<>> /\ OnlyRules(validator.rules, "maxSize"))
  => LET files == FilesGiven(call.value)
         above == {k \in 1..Len(files) :
                     \E j \in 1..Len(validator.rules) :
                       files[k].size.n > validator.rules[j].n * 1024 * 1024}
     IN /\ Returned(result)
        /\ result.valid <=> above = {}
        /\ ~result.valid => Len(result.errors) = Cardinality(above)

\* a descriptor of exactly 5 MB has passed maxSize(5)
C19_Witness ==
  /\ IsFileInput /\ call.value = JpgAtLimit
  /\ Len(validator.rules) = 1 /\ validator.rules[1].op = "maxSize"
  /\ validator.rules[1].n = 5
  /\ Succeeded(result)

\* an object that carries a type and a size
CarriesTypeAndSize(x) ==
  x.t = "object" /\ x.type # Undefined /\ x.size # Undefined

\* C20: File validator, for an input without null elements: an element gets
\* the "<fieldName> <i> invalid format" error exactly when it is not an
\* object or lacks type or size; a descriptor with a type and a size, also a
\* size of 0, does not get it
C20_InvalidFormatIffShapeless ==
  (/\ IsFileInput
   /\ \A k \in 1..Len(FilesGiven(call.value)) :
        FilesGiven(call.value)[k] # Null)
  => LET files == FilesGiven(call.value)
         errors == IF Failed(result) THEN result.errors ELSE <<>>
     IN /\ Returned(result)
        /\ \A k \in 1..Len(files) :
             (\E e \in 1..Len(errors) :
                errors[e] = MsgAt(CalledFieldName, k - 1, "invalid format"))
             <=> ~CarriesTypeAndSize(files[k])


\* the key of the k-th schema field is missing, undefined or null in the
\* parsed object
KeyIsMissing(k) == IsNullish(input[SchemaKey(k)])

\* another step of parseData wrote errors[key]: the confirmation check
OverwrittenByConfirmation(k) ==
  SchemaKey(k) = "password_confirmation" /\ MismatchDetected

\* C21: a schema key that is missing (or undefined or null) in the input
\* reaches its validator as null with fieldName equal to the key: for a
\* non-nullable field parseData returns errors[key] = "<key> is required",
\* for a nullable field data[key] = null when parseData succeeds
C21_MissingKeyIsNull ==
  HasParsed =>
    \A k \in 1..Len(schema) :
      KeyIsMissing(k) =>
        IF schema[k].validator.allowNull
        THEN /\ Returned(parsed)
             /\ parsed.valid => Get(parsed.data, SchemaKey(k)) = Null
        ELSE /\ Failed(parsed)
             /\ Has(parsed.errors, SchemaKey(k))
             /\ \/ IsRequiredMessage(Get(parsed.errors, SchemaKey(k)),
                                     SchemaKey(k))
                \/ OverwrittenByConfirmation(k)


\* C22: validate and parseData change neither the rule list, nor the
\* nullable flag, nor any other configuration, and what they return is
\* determined by the configuration and the input of the call alone: calls
\* with the same input return equal results, whatever was called before
C22_CallsLeaveConfiguration ==
  [][/\ call'.op = "validate" =>
          /\ validator' = validator
          /\ result' = Validate(validator, call'.value, call'.options).res
     /\ parsed' # NoSchemaCall =>
          /\ schema' = schema
          /\ parsed' = parseData(schema, input').res]_vars

\* validate has returned on a validator with two rules and the nullable
\* flag, or parseData has returned on a schema of two fields
C22_Witness ==
  \/ /\ IsValidateCall
     /\ Returned(result)
     /\ Len(validator.rules) = 2
     /\ validator.allowNull
  \/ /\ HasParsed
     /\ Returned(parsed)
     /\ Len(schema) = 2


\* the value given to validate passes the type check of the validator and
\* violates its i-th rule; for a file descriptor, the i-th rule is the first
\* one it violates
ViolatesRule(i) ==
  LET rule == validator.rules[i]
      value == call.value
  IN CASE validator.cls = "String" ->
            /\ IsStringInput
            /\ LengthRuleViolated(rule, Len(value.s))
            /\ LengthRuleViolated(rule, Len(Trim(value.s)))
       [] validator.cls = "Integer" ->
            IsWholeNumber(value) /\ ~IntegerRuleHolds(rule, value.n)
       [] validator.cls = "Email" ->
            /\ IsEmailInput
            /\ HasAddressForm(value.s, 2)
            /\ Len(value.s) > rule.n
       [] validator.cls = "File" ->
            /\ ~IsArray(value)
            /\ ShapeOk(value)
            /\ ~FileRule(rule, value, CalledFieldName, 0).valid
            /\ \A j \in 1..(i - 1) :
                 FileRule(validator.rules[j], value, CalledFieldName, 0).valid
       [] OTHER -> FALSE

HasMessageOption(rule) == "message" \in DOMAIN rule /\ rule.message # ""

\* C23: when a rule-adding call was given options.message, a failure of that
\* rule puts exactly that message into errors, verbatim and without a
\* field-name prefix
C23_CustomMessageIsVerbatim ==
  IsValidateCall =>
    \A i \in 1..Len(validator.rules) :
      (HasMessageOption(validator.rules[i]) /\ ViolatesRule(i)) =>
        /\ Failed(result)
        /\ \E e \in 1..Len(result.errors) :
             result.errors[e] = Verbatim(validator.rules[i].message)


\* C24: validate of every primitive validator returns a ValidationResult and
\* never raises, for every input value and every rule configuration
C24_ValidateNeverRaises ==
  IsValidateCall => Returned(result)


\* a message of the model stands for one string
IsString(m) == "text" \in DOMAIN m \/ "verbatim" \in DOMAIN m

HasData(r) == "data" \in DOMAIN r
HasErrors(r) == "errors" \in DOMAIN r

\* errors is a non-empty list of strings
ErrorsAreStrings(r) ==
  /\ HasErrors(r)
  /\ r.errors # <<>>
  /\ \A e \in 1..Len(r.errors) : IsString(r.errors[e])

\* C25: every result returned by validate has, when valid is true, a data
\* field and no errors field, and when valid is false a non-empty list of
\* strings as errors and no data field
C25_DataIffValid ==
  (IsValidateCall /\ Returned(result)) =>
    IF result.valid
    THEN HasData(result) /\ ~HasErrors(result)
    ELSE ErrorsAreStrings(result) /\ ~HasData(result)

\* C25 as the code has it: a failure result of the File validator carries
\* data: null next to errors, a failure result of every other validator has
\* no data field
C25_DataIffValidOrFileNull ==
  (IsValidateCall /\ Returned(result)) =>
    IF result.valid
    THEN HasData(result) /\ ~HasErrors(result)
    ELSE /\ ErrorsAreStrings(result)
         /\ IF validator.cls = "File"
            THEN HasData(result) /\ result.data = Null
            ELSE ~HasData(result)

\* the File validator has returned a failure for a descriptor that violates
\* a rule
C25_Witness ==
  /\ IsFileCall
  /\ Failed(result)
  /\ validator.rules # <<>>
  /\ ~IsNullish(call.value)


\* the value given to validate is present and fails the type or format check
\* of the validator
TypeCheckFails ==
  LET value == call.value
  IN /\ ~IsNullish(value)
     /\ CASE validator.cls = "String" ->
               ~validator.isArray /\ TypeOf(value) # "string"
          [] validator.cls = "Integer" ->
               value.t = "number" /\ ~IsWholeNumber(value)
          [] validator.cls = "Email" ->
               \/ TypeOf(value) # "string"
               \/ Len(value.s) > 0 /\ ~HasAddressForm(value.s, 2)
          [] validator.cls = "Password" -> TypeOf(value) # "string"
          [] validator.cls = "File" -> ~IsArray(value) /\ ~ShapeOk(value)
          [] OTHER -> FALSE

\* C26: when the type or format check of validate fails, no added rule is
\* executed and the failure contributes exactly one error
C26_TypeFailureSkipsRules ==
  (IsValidateCall /\ TypeCheckFails) =>
    /\ ran = <<>>
    /\ Failed(result)
    /\ Len(result.errors) = 1


\* validate of the File validator was given descriptors, none of them null
IsDescriptorsCall ==
  /\ IsFileInput
  /\ \A k \in 1..Len(FilesGiven(call.value)) :
       ~IsNullish(FilesGiven(call.value)[k])

\* the rules of the validator that the k-th descriptor violates
RulesViolatedBy(k) ==
  {j \in 1..Len(validator.rules) :
     ~FileRule(validator.rules[j], FilesGiven(call.value)[k],
               CalledFieldName, k - 1).valid}

\* the rules that were executed on the k-th descriptor
RulesRunOn(k) ==
  {j \in 1..Len(validator.rules) :
     \E r \in 1..Len(ran) : ran[r] = <<k - 1, j>>}

MessageOfRule(j, k) ==
  FileRule(validator.rules[j], FilesGiven(call.value)[k],
           CalledFieldName, k - 1).error

Least(S) == CHOOSE j \in S : \A other \in S : j <= other

RuleAddingCalls ==
  {"min", "max", "positive", "containsNumber", "containsSpecialChar",
   "containsUppercase", "type", "maxSize"}

\* the rule list after the step is the one before it with one rule appended
OneRuleAppended ==
  /\ Len(validator'.rules) = Len(validator.rules) + 1
  /\ SubSeq(validator'.rules, 1, Len(validator.rules)) = validator.rules
  /\ validator' = [validator EXCEPT !.rules = validator'.rules]

\* C28: across builder calls and validate calls on one validator, each
\* successful rule-adding call appends exactly one rule at the end of the
\* rule list and returns the same validator; a rule-adding call that raises,
\* nullable(), array() and validate leave the rule list as it is; no call
\* removes or reorders rules, and the nullable flag, once set, stays set
C28_RulesOnlyGrowAtTheEnd ==
  [][/\ (call'.op \in RuleAddingCalls /\ ~HasRaised(result')) =>
          OneRuleAppended /\ result' = This
     /\ (call'.op \in RuleAddingCalls /\ HasRaised(result')) =>
          validator' = validator
     /\ call'.op \in {"nullable", "array"} =>
          /\ validator'.rules = validator.rules
          /\ result' = This
     /\ call'.op = "validate" => validator' = validator
     /\ validator.allowNull => validator'.allowNull
     /\ validator'.cls = validator.cls]_vars

\* nullable() has returned on a nullable validator that holds two rules
C28_Witness ==
  /\ call.op = "nullable"
  /\ result = This
  /\ Len(validator.rules) = 2
  /\ validator.allowNull


\* validate was called on a String validator after array()
IsStringArrayCall ==
  IsValidateCall /\ validator.cls = "String" /\ validator.isArray

\* m is one of the messages of the type check of the String validator
IsTypeMessage(m) ==
  "text" \in DOMAIN m /\ m.text \in {"must be an array", "must be a string"}

\* the index, counted from 0, of the first element of items that is not a
\* string
IndexOfFirstNonString(items) ==
  CHOOSE i \in 0..(Len(items) - 1) :
    /\ TypeOf(items[i + 1]) # "string"
    /\ \A before \in 1..i : TypeOf(items[before]) = "string"

KeysOfMap(map) == {map[i].key : i \in 1..Len(map)}
HasEachKeyOnce(map) ==
  \A i, j \in 1..Len(map) : map[i].key = map[j].key => i = j

\* the input object has a key that the schema lacks
HasExtraKey ==
  \E key \in SchemaKeys :
    /\ input[key] # Undefined
    /\ \A k \in 1..Len(schema) : SchemaKey(k) # key

\* C30: on success the data map of parseData has exactly the keys of the
\* schema, input keys that the schema lacks being dropped; on failure the
\* keys of the errors map are keys of the schema or password_confirmation,
\* and each key maps to one string
C30_KeysComeFromSchema ==
  HasParsed =>
    LET schemaKeys == {SchemaKey(k) : k \in 1..Len(schema)}
    IN /\ Succeeded(parsed) =>
            /\ KeysOfMap(parsed.data) = schemaKeys
            /\ HasEachKeyOnce(parsed.data)
       /\ Failed(parsed) =>
            /\ KeysOfMap(parsed.errors)
                 \subseteq schemaKeys \cup {"password_confirmation"}
            /\ HasEachKeyOnce(parsed.errors)
            /\ \A i \in 1..Len(parsed.errors) :
                 IsString(parsed.errors[i].value)

\* parseData has succeeded on an object with a key that the schema lacks
C30_Witness ==
  /\ HasParsed
  /\ Succeeded(parsed)
  /\ Len(schema) = 2
  /\ HasExtraKey

====
